---- MODULE Spec2Model ----
(***************************************************************************)
(* Model of the copywriting roast bot (src/main.py).                       *)
(*                                                                         *)
(*   Spec       the bot process, updates dispatched to the handlers of     *)
(*              RoastBot one at a time; every await on the messaging       *)
(*              transport and every call of the generation backend is an   *)
(*              environment choice (it returns or raises).                 *)
(*   SpecStore  DatabaseManager used by concurrent callers: every call     *)
(*              opens its own sqlite connection, statements of different   *)
(*              connections interleave, writers are serialised by the      *)
(*              database write lock.                                       *)
(*   SpecMode   the bot process, with the mode commands handled while a    *)
(*              message handler is suspended at an await.                  *)
(*   SpecConc   the bot process, with two message handlers running as      *)
(*              tasks of the one event loop.                               *)
(*                                                                         *)
(* The Application of line 503 is built with the settings of the library;  *)
(* whether it hands the next update to a handler before the previous       *)
(* handler has returned is the platform's choice.  Spec is the first case, *)
(* SpecMode and SpecConc are the second.                                   *)
(*                                                                         *)
(* I/O errors of sqlite and of the file system are not modelled: the only  *)
(* sqlite3.Error is the PRIMARY KEY violation of add_user's INSERT, and    *)
(* unlink succeeds.  The message text reaching handle_text is non-empty    *)
(* (filters.TEXT), so the early return of lines 317-319 is never taken.    *)
(***************************************************************************)
EXTENDS Integers, Sequences, FiniteSets, TLC

VARIABLES
    users,      \* the rows of table users, in insertion order
    now,        \* the clock that time.strftime reads; it counts the updates (calls) begun
    bot_mode,   \* Config.bot_mode
    files,      \* the files in downloads/, named by file_id
    h,          \* the handler invocation that the event loop is running
    wlock,      \* SpecStore: the caller whose transaction holds the write lock, or 0
    cl,         \* SpecStore: the callers of DatabaseManager
    log,        \* SpecStore: the completed calls, in order of completion
    parked      \* SpecConc: the other handler invocation, not running

vars == <<users, now, bot_mode, files, h, wlock, cl, log, parked>>

(***************************************************************************)
(* Bounds and inputs                                                       *)
(***************************************************************************)
MaxUpdates == 3
MaxOps == 4
MaxTasks == 2

UserIds == {1, 2}
Usernames == {"ani", "budi"}
FileIds == {"f1", "f2"}
Texts == {"Beli sekarang juga!"}
Clients == {1, 2}
StoreUserIds == {1}
ConcUserIds == {1}

(***************************************************************************)
(* Program constants                                                       *)
(***************************************************************************)
SPICY == "pedas"
SOLUTION == "solusi"
BotMode == {SPICY, SOLUTION}

max_retries == 3
retry_delay == 2

Roast == "Roasting keras"
fallback_text == "fallback_text"
fallback_image == "fallback_image"

Fields == {"usage_count", "image_usage_count"}

(***************************************************************************)
(* The users table and the SQL statements run on it.  The table is the     *)
(* sequence of its rows in insertion order.                                *)
(***************************************************************************)
NewRow(id, uname, jt) ==
    [user_id |-> id, username |-> uname, join_time |-> jt,
     usage_count |-> 0, image_usage_count |-> 0]

RowsOf(tbl, id) == {i \in 1..Len(tbl) : tbl[i].user_id = id}

\* SELECT user_id FROM users WHERE user_id = ?  followed by fetchone()
SelectUser(tbl, id) == RowsOf(tbl, id) # {}

PrimaryKeyViolated_NoCheck(tbl, id) == FALSE

\* user_id INTEGER PRIMARY KEY: an INSERT of a present key raises IntegrityError
PrimaryKeyViolated(tbl, id) == \E i \in 1..Len(tbl) : tbl[i].user_id = id

\* INSERT INTO users (user_id, username, join_time) VALUES (?, ?, ?)
InsertUser(tbl, id, uname, jt) == Append(tbl, NewRow(id, uname, jt))

ReadForUpdate_Stale(tbl, snap) == snap

\* the table an UPDATE statement reads: the database as it is when the
\* statement runs (snap is what the connection saw when it was opened)
ReadForUpdate(tbl, snap) == tbl

\* UPDATE users SET field = field + 1 WHERE user_id = ?
UpdateField(tbl, id, field) ==
    [i \in 1..Len(tbl) |->
        IF tbl[i].user_id = id THEN [tbl[i] EXCEPT ![field] = @ + 1] ELSE tbl[i]]

\* cursor.rowcount of that UPDATE
RowCount(tbl, id) == Cardinality(RowsOf(tbl, id))

\* what _increment_field returns once the UPDATE is committed
IncrementReturns(matched) == TRUE

\* add_user run without interleaving (the bot process calls it synchronously)
add_user(tbl, id, uname, jt) ==
    IF SelectUser(tbl, id) THEN tbl
    ELSE IF PrimaryKeyViolated(tbl, id) THEN tbl
    ELSE InsertUser(tbl, id, uname, jt)

\* _increment_field run without interleaving
increment_field(tbl, id, field) == UpdateField(ReadForUpdate(tbl, tbl), id, field)

\* the counters of a user, <<>> when the user has no row
Counters(tbl, id) ==
    IF RowsOf(tbl, id) = {} THEN <<>>
    ELSE LET i == CHOOSE j \in RowsOf(tbl, id) : TRUE
         IN  <<tbl[i].usage_count, tbl[i].image_usage_count>>

(***************************************************************************)
(* SpecStore: concurrent callers of DatabaseManager                        *)
(***************************************************************************)
IdleClient ==
    [pc |-> "idle", op |-> "none", uid |-> 0, uname |-> "", field |-> "",
     jt |-> 0, snap |-> <<>>, pending |-> <<>>, matched |-> 0, begun |-> 0]

IdleHandler ==
    [pc |-> "idle", kind |-> "none", uid |-> 0, input |-> "", file_id |-> "",
     prompt |-> <<>>, retry_count |-> 0, result |-> "", relayed |-> "",
     exc |-> "none", outcomes |-> <<>>, at |-> <<>>, txfail |-> 0, sent |-> {},
     before |-> <<>>, inccalls |-> <<>>, mode0 |-> "", used |-> <<>>, modes |-> <<>>]

Call(c, ret) ==
    [client |-> c, op |-> cl[c].op, uid |-> cl[c].uid, uname |-> cl[c].uname,
     field |-> cl[c].field, jt |-> cl[c].jt, matched |-> cl[c].matched,
     begun |-> cl[c].begun, ret |-> ret]

Resting(c) == cl[c].pc \in {"idle", "done"}

BeginAddUser(c, id, uname) ==
    /\ Resting(c) /\ now < MaxOps
    /\ cl' = [cl EXCEPT ![c] = [IdleClient EXCEPT !.pc = "a_select", !.op = "add_user",
                                  !.uid = id, !.uname = uname,
                                  !.begun = Len(log)]]
    /\ now' = now + 1
    /\ UNCHANGED <<users, bot_mode, files, h, wlock, log, parked>>

\* add_user, lines 102-112: the SELECT, the early return, the join time
AddUserSelect(c) ==
    /\ cl[c].pc = "a_select"
    /\ IF SelectUser(users, cl[c].uid)
       THEN /\ cl' = [cl EXCEPT ![c].pc = "done"]
            /\ log' = Append(log, Call(c, FALSE))
       ELSE /\ cl' = [cl EXCEPT ![c].pc = "a_insert", ![c].jt = now]
            /\ log' = log
    /\ UNCHANGED <<users, now, bot_mode, files, h, wlock, parked>>

\* add_user, lines 113-116 and 120-122: the INSERT takes the write lock, or
\* raises IntegrityError, which is caught and makes the call return False
AddUserInsert(c) ==
    /\ cl[c].pc = "a_insert"
    /\ wlock = 0
    /\ IF PrimaryKeyViolated(users, cl[c].uid)
       THEN /\ cl' = [cl EXCEPT ![c].pc = "done"]
            /\ log' = Append(log, Call(c, FALSE))
            /\ wlock' = wlock
       ELSE /\ cl' = [cl EXCEPT ![c].pc = "a_commit",
                                ![c].pending = InsertUser(users, cl[c].uid, cl[c].uname, cl[c].jt)]
            /\ log' = log
            /\ wlock' = c
    /\ UNCHANGED <<users, now, bot_mode, files, h, parked>>

\* add_user, lines 117-119
AddUserCommit(c) ==
    /\ cl[c].pc = "a_commit"
    /\ users' = cl[c].pending
    /\ wlock' = 0
    /\ cl' = [cl EXCEPT ![c].pc = "done"]
    /\ log' = Append(log, Call(c, TRUE))
    /\ UNCHANGED <<now, bot_mode, files, h, parked>>

BeginIncrement(c, id, field) ==
    /\ Resting(c) /\ now < MaxOps
    /\ cl' = [cl EXCEPT ![c] = [IdleClient EXCEPT !.pc = "i_connect", !.op = "increment",
                                  !.uid = id, !.field = field,
                                  !.begun = Len(log)]]
    /\ now' = now + 1
    /\ UNCHANGED <<users, bot_mode, files, h, wlock, log, parked>>

\* _increment_field, lines 139-140: the connection is opened
IncrementConnect(c) ==
    /\ cl[c].pc = "i_connect"
    /\ cl' = [cl EXCEPT ![c].pc = "i_update", ![c].snap = users]
    /\ UNCHANGED <<users, now, bot_mode, files, h, wlock, log, parked>>

\* _increment_field, lines 142-145: the UPDATE, under the write lock
IncrementUpdate(c) ==
    /\ cl[c].pc = "i_update"
    /\ wlock = 0
    /\ wlock' = c
    /\ cl' = [cl EXCEPT ![c].pc = "i_commit",
                        ![c].matched = RowCount(ReadForUpdate(users, cl[c].snap), cl[c].uid),
                        ![c].pending = UpdateField(ReadForUpdate(users, cl[c].snap),
                                                   cl[c].uid, cl[c].field)]
    /\ UNCHANGED <<users, now, bot_mode, files, h, log, parked>>

\* _increment_field, lines 146-148
IncrementCommit(c) ==
    /\ cl[c].pc = "i_commit"
    /\ users' = cl[c].pending
    /\ wlock' = 0
    /\ cl' = [cl EXCEPT ![c].pc = "done"]
    /\ log' = Append(log, Call(c, IncrementReturns(cl[c].matched)))
    /\ UNCHANGED <<now, bot_mode, files, h, parked>>

InitStore ==
    /\ users = <<>>
    /\ now = 0
    /\ bot_mode = SPICY
    /\ files = {}
    /\ h = IdleHandler
    /\ wlock = 0
    /\ cl = [c \in Clients |-> IdleClient]
    /\ log = <<>>
    /\ parked = IdleHandler

NextStore ==
    \/ \E c \in Clients, id \in StoreUserIds, uname \in Usernames : BeginAddUser(c, id, uname)
    \/ \E c \in Clients : AddUserSelect(c)
    \/ \E c \in Clients : AddUserInsert(c)
    \/ \E c \in Clients : AddUserCommit(c)
    \/ \E c \in Clients, id \in StoreUserIds, field \in Fields : BeginIncrement(c, id, field)
    \/ \E c \in Clients : IncrementConnect(c)
    \/ \E c \in Clients : IncrementUpdate(c)
    \/ \E c \in Clients : IncrementCommit(c)

SpecStore == InitStore /\ [][NextStore]_vars

(***************************************************************************)
(* Spec: the bot process.  h is the handler invocation in progress, or the *)
(* last one that ended ("done": it returned, "raised": an exception left   *)
(* it).  Of h, the fields outcomes (what each invocation of the unit of    *)
(* work did), at (the attempt of each), txfail (transport calls of         *)
(* _process_with_retry that raised), sent, relayed, before, inccalls,      *)
(* mode0 (the mode read at line 326), used (the input passed to each       *)
(* invocation of the unit of work) and modes (the mode at each) record     *)
(* what happened; the code does not read them.                             *)
(***************************************************************************)
\* self.prompts[current_mode].format(text=user_copywriting)
BuildPrompt(mode, text) == [template |-> mode, text |-> text]

ResponseIsTruthy_Inverted(r) == r = ""

\* _process_with_retry, line 439: if response
ResponseIsTruthy(r) == r # ""

\* handle_text line 339, handle_image line 378: if response_text
ResultIsTruthy(r) == r # ""

\* the fallback_message argument of _process_with_retry
Fallback(kind) == IF kind = "text" THEN fallback_text ELSE fallback_image

IncrementFields_TextOnly(kind) == <<"usage_count">>

\* the counters a handler increments, in the order of its calls
IncrementFields(kind) ==
    IF kind = "text" THEN <<"usage_count">> ELSE <<"usage_count", "image_usage_count">>

\* what process_func can do: raise ("fail"), return no content, return content.
\* _generate_image_response opens the image file first, which raises when the
\* file is not there.
UnitOutcomes(kind, file_id, fs) ==
    IF kind = "image" /\ file_id \notin fs THEN {"fail"} ELSE {"fail", "", Roast}

Ended == {"idle", "done", "raised"}

InOrchestrator == {"r_status", "r_call", "r_notice", "r_except", "r_sleep"}

\* an exception leaves the handler: handle_image is inside try/finally from
\* line 367 on, handle_text has no handler of its own
Raise(hh, origin) ==
    IF hh.kind = "image" /\ hh.pc \notin {"i_init", "i_download"}
    THEN [hh EXCEPT !.exc = origin, !.pc = "i_finally"]
    ELSE [hh EXCEPT !.exc = origin, !.pc = "raised"]

\* the handler body is over
Leave(hh) ==
    IF hh.kind = "image" THEN [hh EXCEPT !.pc = "i_finally"] ELSE [hh EXCEPT !.pc = "done"]

\* /start
handle_start(u, uname) ==
    /\ h.pc \in Ended /\ now < MaxUpdates
    /\ now' = now + 1
    /\ users' = add_user(users, u, uname, now + 1)
    /\ h' = [IdleHandler EXCEPT !.kind = "start", !.uid = u, !.pc = "done"]
    /\ UNCHANGED <<bot_mode, files, wlock, cl, log, parked>>

\* /mode_pedas
handle_mode_pedas ==
    /\ h.pc \in Ended
    /\ bot_mode' = SPICY
    /\ UNCHANGED <<users, now, files, h, wlock, cl, log, parked>>

\* /mode_solusi
handle_mode_solusi ==
    /\ h.pc \in Ended
    /\ bot_mode' = SOLUTION
    /\ UNCHANGED <<users, now, files, h, wlock, cl, log, parked>>

\* a text message is dispatched to handle_text
DispatchText(u, t) ==
    /\ h.pc \in Ended /\ now < MaxUpdates
    /\ now' = now + 1
    /\ h' = [IdleHandler EXCEPT !.kind = "text", !.uid = u, !.input = t, !.pc = "t_init",
                                !.before = Counters(users, u)]
    /\ UNCHANGED <<users, bot_mode, files, wlock, cl, log, parked>>

\* handle_text, lines 322-327: typing action, the status message, the prompt
TextInit ==
    /\ h.pc = "t_init"
    /\ \E ok \in BOOLEAN :
         h' = IF ok
              THEN [h EXCEPT !.prompt = BuildPrompt(bot_mode, h.input), !.mode0 = bot_mode,
                             !.retry_count = 1, !.pc = "r_status"]
              ELSE Raise(h, "handler")
    /\ UNCHANGED <<users, now, bot_mode, files, wlock, cl, log, parked>>

\* a photo message is dispatched to handle_image
DispatchImage(u, f) ==
    /\ h.pc \in Ended /\ now < MaxUpdates
    /\ now' = now + 1
    /\ h' = [IdleHandler EXCEPT !.kind = "image", !.uid = u, !.file_id = f, !.pc = "i_init",
                                !.before = Counters(users, u)]
    /\ UNCHANGED <<users, bot_mode, files, wlock, cl, log, parked>>

\* handle_image, lines 359-363: typing action, the status message, get_file
ImageInit ==
    /\ h.pc = "i_init"
    /\ \E ok \in BOOLEAN :
         h' = IF ok THEN [h EXCEPT !.pc = "i_download"] ELSE Raise(h, "handler")
    /\ UNCHANGED <<users, now, bot_mode, files, wlock, cl, log, parked>>

\* handle_image, lines 364-365: the download writes downloads/<file_id>.jpg; it
\* can raise before the file is created or after part of it is written
Download ==
    /\ h.pc = "i_download"
    /\ \E out \in {"ok", "raise", "raise_partial"} :
         /\ files' = IF out = "raise" THEN files ELSE files \cup {h.file_id}
         /\ h' = IF out = "ok"
                 THEN [h EXCEPT !.prompt = h.file_id, !.retry_count = 1, !.pc = "r_status"]
                 ELSE Raise(h, "download")
    /\ UNCHANGED <<users, now, bot_mode, wlock, cl, log, parked>>

\* _process_with_retry, lines 416-432: typing action, status edit, typing action
AttemptStatus ==
    /\ h.pc = "r_status"
    /\ \E ok \in BOOLEAN :
         h' = IF ok THEN [h EXCEPT !.pc = "r_call"]
              ELSE [h EXCEPT !.pc = "r_except", !.txfail = @ + 1]
    /\ UNCHANGED <<users, now, bot_mode, files, wlock, cl, log, parked>>

ProcessInput_Rebuilt(hh, mode) ==
    IF hh.kind = "text" THEN BuildPrompt(mode, hh.input) ELSE hh.prompt

\* the process_input argument of line 434: the value the handler passed in
\* (mode is Config.bot_mode at the time of the call, which is not read)
ProcessInput(hh, mode) == hh.prompt

\* _process_with_retry, lines 434-440: the unit of work, and the return of content
CallUnit ==
    /\ h.pc = "r_call"
    /\ \E out \in UnitOutcomes(h.kind, h.file_id, files) :
         h' = IF out = "fail"
              THEN [h EXCEPT !.outcomes = Append(@, "fail"), !.at = Append(@, h.retry_count),
                             !.used = Append(@, ProcessInput(h, bot_mode)),
                             !.modes = Append(@, bot_mode),
                             !.pc = "r_except"]
              ELSE LET hh == [h EXCEPT !.outcomes = Append(@, IF out = "" THEN "empty" ELSE "ok"),
                                       !.at = Append(@, h.retry_count),
                                       !.used = Append(@, ProcessInput(h, bot_mode)),
                                       !.modes = Append(@, bot_mode)]
                   IN  IF ResponseIsTruthy(out)
                       THEN [hh EXCEPT !.result = out, !.pc = "h_after"]
                       ELSE [hh EXCEPT !.pc = "r_notice"]
    /\ UNCHANGED <<users, now, bot_mode, files, wlock, cl, log, parked>>

\* _process_with_retry, lines 443-446: the message about the empty response
EmptyNotice ==
    /\ h.pc = "r_notice"
    /\ \E ok \in BOOLEAN :
         h' = IF ok THEN [h EXCEPT !.sent = @ \cup {"notice"}, !.result = "", !.pc = "h_after"]
              ELSE [h EXCEPT !.pc = "r_except", !.txfail = @ + 1]
    /\ UNCHANGED <<users, now, bot_mode, files, wlock, cl, log, parked>>

\* _process_with_retry, lines 448-467: the except clause; its status edits are
\* not guarded, so an exception of theirs leaves _process_with_retry
ExceptClause ==
    /\ h.pc = "r_except"
    /\ \E ok \in BOOLEAN :
         h' = IF ~ok THEN Raise([h EXCEPT !.txfail = @ + 1], "orchestrator")
              ELSE IF h.retry_count < max_retries THEN [h EXCEPT !.pc = "r_sleep"]
              ELSE [h EXCEPT !.result = Fallback(h.kind), !.pc = "h_after"]
    /\ UNCHANGED <<users, now, bot_mode, files, wlock, cl, log, parked>>

\* _process_with_retry, line 458 and the next turn of the loop of line 415
Sleep ==
    /\ h.pc = "r_sleep"
    /\ h' = [h EXCEPT !.retry_count = @ + 1, !.pc = "r_status"]
    /\ UNCHANGED <<users, now, bot_mode, files, wlock, cl, log, parked>>

\* handle_text line 339, handle_image line 378
AfterRetry ==
    /\ h.pc = "h_after"
    /\ h' = IF ResultIsTruthy(h.result) THEN [h EXCEPT !.pc = "h_delete"] ELSE Leave(h)
    /\ UNCHANGED <<users, now, bot_mode, files, wlock, cl, log, parked>>

\* handle_text lines 341-344, handle_image lines 380-383: delete the status message
DeleteInitial ==
    /\ h.pc = "h_delete"
    /\ \E ok \in BOOLEAN :
         h' = IF ok THEN [h EXCEPT !.pc = "h_inc"] ELSE Raise(h, "delete")
    /\ UNCHANGED <<users, now, bot_mode, files, wlock, cl, log, parked>>

RECURSIVE IncrementAll(_, _, _)
IncrementAll(tbl, id, fs) ==
    IF fs = <<>> THEN tbl
    ELSE IncrementAll(increment_field(tbl, id, Head(fs)), id, Tail(fs))

\* handle_text line 347, handle_image lines 386-387
IncrementUsage ==
    /\ h.pc = "h_inc"
    /\ users' = IncrementAll(users, h.uid, IncrementFields(h.kind))
    /\ h' = [h EXCEPT !.inccalls = IncrementFields(h.kind), !.pc = "h_reply"]
    /\ UNCHANGED <<now, bot_mode, files, wlock, cl, log, parked>>

\* handle_text line 350, handle_image line 390: the result is sent to the user
Relay ==
    /\ h.pc = "h_reply"
    /\ \E ok \in BOOLEAN :
         h' = IF ok THEN Leave([h EXCEPT !.sent = @ \cup {"relay"}, !.relayed = h.result])
              ELSE Raise(h, "relay")
    /\ UNCHANGED <<users, now, bot_mode, files, wlock, cl, log, parked>>

\* handle_image, lines 392-399: the finally clause removes the file; a pending
\* exception then leaves the handler
Cleanup ==
    /\ h.pc = "i_finally"
    /\ files' = files \ {h.file_id}
    /\ h' = [h EXCEPT !.pc = IF h.exc = "none" THEN "done" ELSE "raised"]
    /\ UNCHANGED <<users, now, bot_mode, wlock, cl, log, parked>>

Init ==
    /\ users = <<>>
    /\ now = 0
    /\ bot_mode = SPICY
    /\ files = {}
    /\ h = IdleHandler
    /\ wlock = 0
    /\ cl = [c \in Clients |-> IdleClient]
    /\ log = <<>>
    /\ parked = IdleHandler

Next ==
    \/ \E u \in UserIds, uname \in Usernames : handle_start(u, uname)
    \/ handle_mode_pedas
    \/ handle_mode_solusi
    \/ \E u \in UserIds, t \in Texts : DispatchText(u, t)
    \/ TextInit
    \/ \E u \in UserIds, f \in FileIds : DispatchImage(u, f)
    \/ ImageInit
    \/ Download
    \/ AttemptStatus
    \/ CallUnit
    \/ EmptyNotice
    \/ ExceptClause
    \/ Sleep
    \/ AfterRetry
    \/ DeleteInitial
    \/ IncrementUsage
    \/ Relay
    \/ Cleanup

Spec == Init /\ [][Next]_vars

(***************************************************************************)
(* Handlers as concurrent tasks of one event loop.  A task gives up the    *)
(* loop only at an await; time.sleep (line 458) and the code between two   *)
(* awaits keep the thread.                                                 *)
(*                                                                         *)
(*   SpecMode   one message handler, and /mode_pedas and /mode_solusi      *)
(*              handled while it is suspended at an await.                 *)
(*   SpecConc   two message handlers: h is the task the loop runs next,    *)
(*              parked the other one.  The transport is taken to be        *)
(*              reliable here (its faults are the subject of Spec); the    *)
(*              unit of work still fails, or returns nothing.              *)
(***************************************************************************)
\* the positions at which a task is suspended in an await (or has ended)
AtAwait ==
    Ended \cup {"t_init", "i_init", "i_download", "r_status", "r_call", "r_notice",
                "r_except", "h_delete", "h_reply"}

\* /mode_pedas handled while the message handler awaits
ModePedasDuring ==
    /\ h.pc \in AtAwait \ Ended
    /\ bot_mode' = SPICY
    /\ UNCHANGED <<users, now, files, h, wlock, cl, log, parked>>

\* /mode_solusi handled while the message handler awaits
ModeSolusiDuring ==
    /\ h.pc \in AtAwait \ Ended
    /\ bot_mode' = SOLUTION
    /\ UNCHANGED <<users, now, files, h, wlock, cl, log, parked>>

NextMode ==
    \/ \E u \in ConcUserIds, uname \in Usernames : now < MaxTasks /\ handle_start(u, uname)
    \/ handle_mode_pedas
    \/ handle_mode_solusi
    \/ ModePedasDuring
    \/ ModeSolusiDuring
    \/ \E u \in ConcUserIds, t \in Texts : now < MaxTasks /\ DispatchText(u, t)
    \/ TextInit
    \/ \E u \in ConcUserIds, f \in FileIds : now < MaxTasks /\ DispatchImage(u, f)
    \/ ImageInit
    \/ Download
    \/ AttemptStatus
    \/ CallUnit
    \/ EmptyNotice
    \/ ExceptClause
    \/ Sleep
    \/ AfterRetry
    \/ DeleteInitial
    \/ IncrementUsage
    \/ Relay
    \/ Cleanup

SpecMode == Init /\ [][NextMode]_vars

\* the event loop resumes the other task
Switch ==
    /\ h.pc \in AtAwait
    /\ h.pc \notin Ended \/ parked.pc \notin Ended
    /\ h' = parked
    /\ parked' = h
    /\ UNCHANGED <<users, now, bot_mode, files, wlock, cl, log>>

\* the transport call of the step returns
Delivered == h'.exc = "none" /\ h'.txfail = h.txfail

NextConc ==
    \/ Switch
    \/ \E u \in ConcUserIds, t \in Texts : now < MaxTasks /\ DispatchText(u, t)
    \/ TextInit /\ Delivered
    \/ \E u \in ConcUserIds, f \in FileIds : now < MaxTasks /\ DispatchImage(u, f)
    \/ ImageInit /\ Delivered
    \/ Download /\ Delivered
    \/ AttemptStatus /\ Delivered
    \/ CallUnit
    \/ EmptyNotice /\ Delivered
    \/ ExceptClause /\ Delivered
    \/ Sleep
    \/ AfterRetry
    \/ DeleteInitial /\ Delivered
    \/ IncrementUsage
    \/ Relay /\ Delivered
    \/ Cleanup

SpecConc == Init /\ [][NextConc]_vars

(***************************************************************************)
(* Claims about the Retry Orchestrator and the handlers (checked under     *)
(* Spec)                                                                   *)
(***************************************************************************)
IsMessage == h.kind \in {"text", "image"}

\* _process_with_retry has returned a value to the handler
Returned ==
    /\ IsMessage
    /\ \/ h.pc \in {"h_after", "h_delete", "h_inc", "h_reply"}
       \/ h.pc \in {"i_finally", "done", "raised"} /\ h.exc \in {"none", "delete", "relay"}

\* an exception has left _process_with_retry
OrchestratorRaised == IsMessage /\ h.exc = "orchestrator"

OrchestratorEnded == Returned \/ OrchestratorRaised

HandlerEnded == IsMessage /\ h.pc \in {"done", "raised"}

\* the unit of work failed k times and then returned content
FailedThenSucceeded(k) ==
    /\ Len(h.outcomes) > k
    /\ \A i \in 1..k : h.outcomes[i] = "fail"
    /\ h.outcomes[k + 1] = "ok"

\* C1: for k = 0, 1, 2: once the unit of work has failed k times and then
\* returned content, it has been invoked exactly k+1 times and is not invoked
\* again, and _process_with_retry returns that content, not the fallback. With
\* no transport call failing, that is attempt k+1.
C1_RetryUntilSuccess ==
    \A k \in 0..(max_retries - 1) :
        FailedThenSucceeded(k) =>
            /\ Len(h.outcomes) = k + 1
            /\ Returned
            /\ h.result = Roast
            /\ h.result # Fallback(h.kind)
            /\ h.retry_count = h.at[k + 1]
            /\ h.txfail = 0 => h.retry_count = k + 1

C1_Witness ==
    /\ FailedThenSucceeded(2)
    /\ h.kind = "text" /\ h.pc = "done"
    /\ h.txfail = 0 /\ h.retry_count = 3
    /\ h.relayed = Roast

AlwaysFailed ==
    /\ Len(h.outcomes) >= 1
    /\ \A i \in DOMAIN h.outcomes : h.outcomes[i] = "fail"

\* C2: when every invocation of the unit of work failed, _process_with_retry
\* ends after exactly 3 attempts by returning the fallback text.
C2_ExhaustedFallback ==
    (OrchestratorEnded /\ AlwaysFailed) =>
        /\ h.retry_count = max_retries
        /\ Returned
        /\ h.result = Fallback(h.kind)

\* C3: an attempt on which the unit of work returns empty content is the last
\* one (an empty attempt 1 is the only attempt): the explanatory message is
\* sent and _process_with_retry returns the empty result, not the fallback.
C3_EmptyEndsAttempts ==
    \A i \in DOMAIN h.outcomes :
        h.outcomes[i] = "empty" =>
            /\ i = Len(h.outcomes)
            /\ h.retry_count = h.at[i]
            /\ \/ h.pc = "r_notice"
               \/ /\ Returned
                  /\ "notice" \in h.sent
                  /\ h.result = ""
                  /\ h.result # Fallback(h.kind)

\* C4: no exception leaves _process_with_retry; it ends with content, with
\* the message about the empty response, or with the fallback text.
C4_NoPropagation ==
    /\ ~OrchestratorRaised
    /\ OrchestratorEnded =>
         \/ h.result = Roast
         \/ h.result = Fallback(h.kind)
         \/ h.result = "" /\ "notice" \in h.sent

\* C5: the usage counters of a user never decrease, and a step that raises
\* one comes only after content was obtained from the backend and relayed to
\* the user, so never when the fallback message is all there is.
C5_IncrementOnlyAfterRelay ==
    [][\A u \in UserIds :
          LET a == Counters(users, u)
              b == Counters(users', u)
          IN  /\ a # <<>> => (b # <<>> /\ b[1] >= a[1] /\ b[2] >= a[2])
              /\ (a # <<>> /\ b # a) =>
                    /\ h.result = Roast
                    /\ h.result # Fallback(h.kind)
                    /\ "relay" \in h.sent
                    /\ h.relayed = h.result]_vars

\* the counters a handler of this kind is to leave, from those it found
Plus(before, kind) ==
    <<before[1] + 1, before[2] + (IF kind = "image" THEN 1 ELSE 0)>>

C7_TempFileScoped ==
    /\ (h.kind = "image" /\ h.pc \in InOrchestrator) => h.file_id \in files
    /\ (h.kind = "image" /\ h.pc \in {"done", "raised"}) => h.file_id \notin files

(***************************************************************************)
(* Claims about the User Store (checked under SpecStore)                   *)
(***************************************************************************)
IsIncrement(i) == log[i].op = "increment"
IsAddUser(i) == log[i].op = "add_user"

\* the completed increments of a counter that found the row and returned True
IncsDone(id, f) ==
    Cardinality({i \in DOMAIN log : /\ IsIncrement(i) /\ log[i].uid = id /\ log[i].field = f
                                    /\ log[i].matched > 0 /\ log[i].ret = TRUE})

\* call j was begun before call i had completed: the two overlapped
Overlapped(i, j) == i < j /\ log[j].begun < i

\* C8: an increment_usage_count / increment_image_usage_count call for a
\* user_id without a row returns the failure indicator False, and it leaves
\* the store as it was.
C8_MissingUserIncrementFails ==
    /\ \A i \in DOMAIN log : (IsIncrement(i) /\ log[i].matched = 0) => log[i].ret = FALSE
    /\ \A c \in Clients : (cl[c].pc = "i_commit" /\ cl[c].matched = 0) => cl[c].pending = users

\* C9: no increment is lost. Each counter of an existing user equals the
\* number of increment calls on it that completed, in every interleaving; so
\* two concurrent increments of one counter leave it exactly 2 higher.
C9_NoLostUpdate ==
    \A id \in StoreUserIds : \A r \in RowsOf(users, id) : \A f \in Fields :
        users[r][f] = IncsDone(id, f)

C9_Witness ==
    \E i, j \in DOMAIN log :
        /\ Overlapped(i, j)
        /\ IsIncrement(i) /\ IsIncrement(j)
        /\ log[i].uid = log[j].uid /\ log[i].field = log[j].field
        /\ log[i].field = "usage_count"
        /\ log[i].matched = 1 /\ log[j].matched = 1
        /\ \E r \in RowsOf(users, log[i].uid) : users[r].usage_count = 2

AddCalls(id) == {i \in DOMAIN log : IsAddUser(i) /\ log[i].uid = id}

First(S) == CHOOSE i \in S : \A j \in S : i <= j

\* C10: add_user called more than once with one user_id, one call after the
\* other or interleaved, leaves exactly one row for that user_id; the row has
\* the username and join time of the first call to complete and counters
\* that start at 0; that call returns True and every other one returns False.
C10_AddUserIdempotent ==
    \A id \in StoreUserIds :
        /\ Cardinality(RowsOf(users, id)) <= 1
        /\ AddCalls(id) # {} =>
             LET f == First(AddCalls(id))
             IN  /\ log[f].ret = TRUE
                 /\ \A i \in AddCalls(id) \ {f} : log[i].ret = FALSE
                 /\ Cardinality(RowsOf(users, id)) = 1
                 /\ \A r \in RowsOf(users, id) :
                        /\ users[r].username = log[f].uname
                        /\ users[r].join_time = log[f].jt
                        /\ \A fld \in Fields : users[r][fld] = IncsDone(id, fld)

\* two interleaved calls, the later one stopped by the PRIMARY KEY at its INSERT
C10_Witness ==
    \E i, j \in DOMAIN log :
        /\ Overlapped(i, j)
        /\ IsAddUser(i) /\ IsAddUser(j) /\ log[i].uid = log[j].uid
        /\ log[i].ret = TRUE /\ log[j].ret = FALSE
        /\ log[j].jt > 0
        /\ log[i].uname # log[j].uname
        /\ Cardinality(RowsOf(users, log[i].uid)) = 1

(***************************************************************************)
(* Claims about concurrent handler invocations                             *)
(***************************************************************************)
\* the invocation has been dispatched and has not ended
Running(r) == r.pc \notin Ended

\* C11: while one handler invocation is in the backoff delay between two
\* attempts, only that invocation is blocked: another invocation that has
\* been dispatched and has not ended can take its next step.
C11_BackoffBlocksOnlyItself ==
    (h.pc = "r_sleep" /\ Running(parked)) => ENABLED Switch

\* the invocation has its image in downloads/ and has not yet removed it
Holding(r) == r.kind = "image" /\ r.pc \notin Ended \cup {"i_init", "i_download"}

\* C12: the temporary file of a handle_image invocation is not shared: two
\* running invocations never hold the same file, and the file an invocation
\* is processing is not deleted by the other one.
C12_TempFileNotShared ==
    /\ (Holding(h) /\ Holding(parked)) => h.file_id # parked.file_id
    /\ \A r \in {h, parked} : (Holding(r) /\ r.pc # "i_finally") => r.file_id \in files

\* C13: within one handle_text invocation every attempt is given the prompt
\* that was built once, from the Mode read before the first attempt, whatever
\* Mode has become since; Mode is always SPICY or SOLUTION.
C13_PromptFixedAcrossAttempts ==
    /\ bot_mode \in BotMode
    /\ h.kind = "text" =>
         /\ h.pc \notin {"idle", "t_init"} /\ h.exc # "handler" => h.prompt = BuildPrompt(h.mode0, h.input)
         /\ \A i \in DOMAIN h.used : h.used[i] = BuildPrompt(h.mode0, h.input)

\* a mode command was handled between the first and the second attempt, and
\* the second attempt ran under a Mode other than the one the prompt has
C13_Witness ==
    /\ h.kind = "text" /\ Len(h.used) >= 2
    /\ h.modes[1] = h.mode0 /\ h.modes[2] # h.mode0
    /\ h.used[2] = BuildPrompt(h.mode0, h.input)
    /\ BuildPrompt(h.modes[2], h.input) # h.used[2]

====
